---- MODULE Spec2Model ----
(***************************************************************************)
(* A model of the fraud-detection batch pipeline:                          *)
(*   code/ingest_and_split.py                  (SpecIngest)                *)
(*   code/generate_categorical_encoding_dict.py (SpecEncode)               *)
(*   code/generate_model_dataset.py             (SpecDataset)              *)
(* Every script is a single-threaded run of its main(); pc is the position *)
(* of that run, one step per statement that reads or writes a table/file.  *)
(* Floating point numbers are modelled as exact fractions num/den.         *)
(***************************************************************************)
EXTENDS Integers, Sequences, FiniteSets, Bags, TLC

VARIABLES
    pc,                       \* position of the running main()
    err,                      \* the exception that ended the run (NoError when none)
    \* ---- ingest_and_split.py
    validate_fraction,        \* args.validate_fraction
    split_hash,               \* args.split_hash
    source_txn_csv,           \* rows of the file at args.source_txn_csv
    source_labels_csv,        \* rows of the file at args.source_labels_csv
    txns,                     \* table txns (rows of the CSV plus random_row_order)
    to_validate_row_count,    \* local of split_txns_and_save
    destination_txn_validate, \* the validation parquet file
    destination_txn_train,    \* the training parquet file
    destination_labels,       \* the labels parquet file
    previous_run,             \* partitions written by the previous completed run
    \* ---- generate_categorical_encoding_dict.py
    source_data_table,        \* rows of the file at args.source_data_table
    data_table,               \* table data_table
    categorical_feature_list, \* args.categorical_feature_list
    i_fn,                     \* loop index of main
    enc_dict,                 \* enc_dict of main
    destination_categorical_encoding_dict,  \* the JSON file written
    \* ---- generate_model_dataset.py (its tables txns and its local
    \*      categorical_feature_list are the variables of those names above)
    source_txns_table,        \* rows of the file at args.source_txns_table
    source_labels_table,      \* args.source_labels_table: given or not, and its rows
    source_categorical_encoding_dict,  \* the JSON file: given or not, and its content
    labels,                   \* table labels
    cat_enc_dict,             \* cat_enc_dict of main (None or the loaded dict)
    full_table,               \* table full_table
    prelim_dataset_df,        \* prelim_dataset_df of main
    dataset_df,               \* dataset_df of main
    destination_model_dataset, \* the dataset parquet file
    \* ---- train_model.py and predict.py (source_dataset, full_df and model
    \*      are locals of both)
    model_config,             \* args.model_config
    source_dataset,           \* the file at args.source_dataset
    full_df,                  \* full_df of main
    model_feature_list,       \* model_feature_list of train_model.main
    model,                    \* model of main (NoModel before it is fit or loaded)
    destination_model,        \* the model JSON file train_model.py writes
    source_model,             \* the file at args.source_model of predict.py
    destination_predictions   \* the predictions parquet file

ingestRest ==
    <<validate_fraction, split_hash, source_txn_csv, source_labels_csv,
      to_validate_row_count, destination_txn_validate, destination_txn_train,
      destination_labels, previous_run>>
ingestVars == <<ingestRest, txns>>

encodeRest ==
    <<source_data_table, data_table, i_fn, enc_dict,
      destination_categorical_encoding_dict>>
encodeVars == <<encodeRest, categorical_feature_list>>

datasetRest ==
    <<source_txns_table, source_labels_table, source_categorical_encoding_dict,
      labels, cat_enc_dict, full_table, prelim_dataset_df, dataset_df,
      destination_model_dataset>>
datasetVars == <<datasetRest, txns, categorical_feature_list>>

modelVars ==
    <<model_config, source_dataset, full_df, model_feature_list, model,
      destination_model, source_model, destination_predictions>>

vars ==
    <<pc, err, ingestRest, encodeRest, datasetRest, txns, categorical_feature_list,
      modelVars>>

\* the variables of the scripts that are not running
notIngestVars == <<encodeVars, datasetRest, modelVars>>
notEncodeVars == <<ingestVars, datasetRest, modelVars>>
notDatasetVars == <<ingestRest, encodeRest, modelVars>>
notModelVars == <<ingestVars, encodeVars, datasetRest>>

-----------------------------------------------------------------------------
(* Bounds of the model *)

\* longest transactions CSV
MaxRows == 3
\* number of distinct values of the abstract HASH()
HashRange == 3
\* most rows of data_table holding the same values
MaxCount == 3
\* most rows of the transactions table that a dataset is assembled from
MaxTxns == 2

-----------------------------------------------------------------------------
(* Generic helpers *)

SeqsUpTo(S, n) == UNION {[1..k -> S] : k \in 0..n}

Range(s) == {s[i] : i \in DOMAIN s}

\* the bag (multiset) of the values f[i], i \in D
BagOf(f, D) ==
    LET vals == {f[i] : i \in D}
    IN  [v \in vals |-> Cardinality({i \in D : f[i] = v})]

RECURSIVE SumOver(_, _)
\* the sum of f[x] over x \in S
SumOver(f, S) ==
    IF S = {} THEN 0
    ELSE LET x == CHOOSE y \in S : TRUE
         IN  f[x] + SumOver(f, S \ {x})

SetMax(S) == CHOOSE x \in S : \A y \in S : y <= x

\* every bag over the set S that holds each element at most n times
BagsOver(S, n) == UNION {[T -> 1..n] : T \in SUBSET S}

\* every bag over the set S of at most n elements in all
BagsUpTo(S, n) == {b \in BagsOver(S, n) : SumOver(b, DOMAIN b) <= n}

\* every arrangement of the elements of S in a sequence
Perms(S) ==
    {f \in [1..Cardinality(S) -> S] : \A i, j \in DOMAIN f : i # j => f[i] # f[j]}

RECURSIVE GCD(_, _)
GCD(a, b) == IF b = 0 THEN a ELSE GCD(b, a % b)

\* an exception: its message and the names (of columns, values, files) that
\* the message quotes
Error(m, S) == [msg |-> m, mentions |-> S]
NoError == Error("", {})

\* float64 values, as exact fractions with a positive denominator
Frac(n, d) == [num |-> n, den |-> d]
\* the quotient n / d of two positive counts (one float64 per rational value)
FracDiv(n, d) == Frac(n \div GCD(n, d), d \div GCD(n, d))
FLt(a, b) == a.num * b.den < b.num * a.den
FGt(a, b) == FLt(b, a)
FLe(a, b) == ~FLt(b, a)
FEq(a, b) == a.num * b.den = b.num * a.den

-----------------------------------------------------------------------------
(* ingest_and_split.py: inputs *)

EventIds == {"e1", "e2"}
Times == {1}
Amounts == {10, 20}

\* a line of the transactions CSV (the columns the pipeline reads)
TxnRows == [eventId : EventIds, transactionTime : Times, transactionAmount : Amounts]

\* a line of the labels CSV
LabelRows == [eventId : EventIds, reportedTime : {"2017-03-01"}]

SplitHashes == {"42fish", "7cats"}

\* --validate_fraction values: sentinel, invalid and valid ones
ValidateFractions ==
    {Frac(-1, 1), Frac(-1, 2), Frac(-1, 5), Frac(0, 1), Frac(3, 10), Frac(2, 3),
     Frac(1, 1), Frac(3, 2)}

\* HASH(CONCAT(CAST(transactionTime AS STRING), eventId, split_hash)):
\* a deterministic function of the concatenated key into a finite range.
\* Rows with the same transactionTime and eventId always hash alike; under
\* "42fish" the two event ids hash differently, under "7cats" they collide.
IdCode(e) == IF e = "e1" THEN 1 ELSE 2
SeedCode(s) == IF s = "42fish" THEN 1 ELSE 0
HASH(time, eventId, seed) == (time + IdCode(eventId) * SeedCode(seed)) % HashRange

\* ROW_NUMBER() OVER (ORDER BY hash): every numbering 1..N of the rows that is
\* ascending in the hash; the order of rows with equal hash is not specified by
\* the query, so each of them is possible.
RowNumberOver(csv, seed) ==
    LET N == Len(csv)
        h(i) == HASH(csv[i].transactionTime, csv[i].eventId, seed)
    IN  {f \in [1..N -> 1..N] :
            /\ \A i, j \in 1..N : i # j => f[i] # f[j]
            /\ \A i, j \in 1..N : h(i) < h(j) => f[i] < f[j]}

WithRank(r, k) ==
    [eventId |-> r.eventId, transactionTime |-> r.transactionTime,
     transactionAmount |-> r.transactionAmount, random_row_order |-> k]

\* SELECT * EXCLUDE(random_row_order)
ExcludeRank(t) ==
    [eventId |-> t.eventId, transactionTime |-> t.transactionTime,
     transactionAmount |-> t.transactionAmount]

\* A parquet file: not written, or the rows (of table txns, by position) copied to it
NotWritten == [written |-> FALSE, rows |-> {}]
Written(S) == [written |-> TRUE, rows |-> S]

\* the rows a partition file holds, as a multiset of records
FileContent(file) == BagOf([i \in DOMAIN txns |-> ExcludeRank(txns[i])], file.rows)

\* what a completed run left in a partition file
FileSummary(file) == [written |-> file.written, content |-> FileContent(file)]

NoPreviousRun ==
    [present |-> FALSE,
     validate |-> [written |-> FALSE, content |-> EmptyBag],
     train |-> [written |-> FALSE, content |-> EmptyBag]]

-----------------------------------------------------------------------------
(* ingest_and_split.py: split_txns_and_save *)

\* SELECT MAX(random_row_order): NULL (NaN in the dataframe) for an empty table
RowCountIsNaN == Len(txns) = 0
RowCount == Len(txns)

\* if validate_fraction > -0.5
SplitRequestedGe(f) == FLe(Frac(-1, 2), f)
SplitRequested(f) == FGt(f, Frac(-1, 2))

\* assert validate_fraction > 0.0 and validate_fraction < 1.0
FractionValidInclusive(f) == FLe(Frac(0, 1), f) /\ FLe(f, Frac(1, 1))
FractionValid(f) == FGt(f, Frac(0, 1)) /\ FLt(f, Frac(1, 1))

\* np.floor(row_count * validate_fraction).astype(int); the cast of NaN to int
\* is undefined: INT64_MIN on x86-64, 0 on aarch64 (INT64_MIN is stood for by
\* the least integer TLC represents)
NaNAsInt == {0 - 2147483647, 0}
FloorMul(n, f) == (n * f.num) \div f.den
ToValidateRowCount(f) == IF RowCountIsNaN THEN NaNAsInt ELSE {FloorMul(RowCount, f)}

\* WHERE random_row_order <= to_validate_row_count
ValidationRowsStrict(k) == {i \in DOMAIN txns : txns[i].random_row_order < k}
ValidationRows(k) == {i \in DOMAIN txns : txns[i].random_row_order <= k}

\* WHERE random_row_order > to_validate_row_count
TrainRows(k) == {i \in DOMAIN txns : txns[i].random_row_order > k}

\* SELECT * EXCLUDE(random_row_order) FROM txns
AllRows == DOMAIN txns

-----------------------------------------------------------------------------
(* generate_categorical_encoding_dict.py: inputs *)

\* the SQL NULL / Python None of a cell: a marker, not a string value
NULL == "<null>"

\* raw values of the categorical column posEntryMode; "NULL" is the text NULL
CatValues == {"a", "b", "c", "NULL", NULL}
MccValues == {"5411"}

\* a row of the transactions table (its categorical columns)
DataRows == [posEntryMode : CatValues, mcc : MccValues]

\* a table is a bag of rows (SQL tables carry no order)
DataTables == BagsOver(DataRows, MaxCount)

FeatureLists == {<<"posEntryMode">>, <<"mcc">>, <<"mcc", "posEntryMode">>}

NoFile == [written |-> FALSE, doc |-> <<>>]

\* a JSON file not written yet (a JSON object is a set of members)
NoJsonFile == [written |-> FALSE, doc |-> {}]

EncodeIdle ==
    /\ source_data_table = EmptyBag
    /\ data_table = EmptyBag
    /\ categorical_feature_list = <<>>
    /\ i_fn = 0
    /\ enc_dict = <<>>
    /\ destination_categorical_encoding_dict = NoJsonFile

\* an optional argument: absent (with the empty content e) or given
NotGiven(e) == [provided |-> FALSE, content |-> e]
Given(c) == [provided |-> TRUE, content |-> c]

DatasetIdle ==
    /\ source_txns_table = EmptyBag
    /\ source_labels_table = NotGiven({})
    /\ source_categorical_encoding_dict = NotGiven({})
    /\ labels = {}
    /\ cat_enc_dict = NotGiven(<<>>)
    /\ full_table = EmptyBag
    /\ prelim_dataset_df = EmptyBag
    /\ dataset_df = EmptyBag
    /\ destination_model_dataset = NoFile

\* a dataframe not read yet, a model not fit or loaded yet
NoFrame == [columns |-> <<>>, flags |-> <<>>]
NoModel == [fitted |-> FALSE, config |-> "", feature_names |-> <<>>]
NoModelFile == [written |-> FALSE, doc |-> NoModel]
NoPredictions == [written |-> FALSE, columns |-> <<>>, rows |-> 0]

ModelIdle ==
    /\ model_config = ""
    /\ source_dataset = NoFrame
    /\ full_df = NoFrame
    /\ model_feature_list = <<>>
    /\ model = NoModel
    /\ destination_model = NoModelFile
    /\ source_model = NoModel
    /\ destination_predictions = NoPredictions

IngestIdle ==
    /\ validate_fraction = Frac(0, 1)
    /\ split_hash = ""
    /\ source_txn_csv = <<>>
    /\ source_labels_csv = <<>>
    /\ txns = <<>>
    /\ to_validate_row_count = 0
    /\ destination_txn_validate = NotWritten
    /\ destination_txn_train = NotWritten
    /\ destination_labels = NotWritten
    /\ previous_run = NoPreviousRun

-----------------------------------------------------------------------------
(* ingest_and_split.py: main *)

InitIngest ==
    /\ pc = "start"
    /\ err = NoError
    /\ validate_fraction \in ValidateFractions
    /\ split_hash \in SplitHashes
    /\ source_txn_csv \in SeqsUpTo(TxnRows, MaxRows)
    /\ source_labels_csv \in SeqsUpTo(LabelRows, 1)
    /\ txns = <<>>
    /\ to_validate_row_count = 0
    /\ destination_txn_validate = NotWritten
    /\ destination_txn_train = NotWritten
    /\ destination_labels = NotWritten
    /\ previous_run = NoPreviousRun
    /\ EncodeIdle
    /\ DatasetIdle
    /\ ModelIdle

Fail(e) ==
    /\ pc' = "failed"
    /\ err' = e

\* load_source_txns: CREATE TABLE txns AS SELECT *, ROW_NUMBER() OVER (...)
LoadSourceTxns ==
    /\ pc = "start"
    /\ \E rro \in RowNumberOver(source_txn_csv, split_hash) :
           txns' = [i \in 1..Len(source_txn_csv) |-> WithRank(source_txn_csv[i], rro[i])]
    /\ pc' = "loaded"
    /\ UNCHANGED notIngestVars
    /\ UNCHANGED <<err, validate_fraction, split_hash, source_txn_csv,
                   source_labels_csv, to_validate_row_count, destination_txn_validate,
                   destination_txn_train, destination_labels, previous_run>>

\* split_txns_and_save: the assert of the split branch fails
AssertFractionFails ==
    /\ pc = "loaded"
    /\ SplitRequested(validate_fraction)
    /\ ~FractionValid(validate_fraction)
    /\ Fail(Error("AssertionError", {}))
    /\ UNCHANGED <<ingestVars, notIngestVars>>

\* split_txns_and_save: COPY of the validation rows
SaveValidate ==
    /\ pc = "loaded"
    /\ SplitRequested(validate_fraction)
    /\ FractionValid(validate_fraction)
    /\ \E k \in ToValidateRowCount(validate_fraction) :
           /\ to_validate_row_count' = k
           /\ destination_txn_validate' = Written(ValidationRows(k))
    /\ pc' = "validate_saved"
    /\ UNCHANGED notIngestVars
    /\ UNCHANGED <<err, validate_fraction, split_hash, source_txn_csv,
                   source_labels_csv, txns, destination_txn_train,
                   destination_labels, previous_run>>

\* the COPY of the validation rows raises (the file cannot be written)
SaveValidateFails ==
    /\ pc = "loaded"
    /\ SplitRequested(validate_fraction)
    /\ FractionValid(validate_fraction)
    /\ Fail(Error("IOException", {"destination_txn_validate"}))
    /\ UNCHANGED <<ingestVars, notIngestVars>>

\* split_txns_and_save: COPY of the training rows, split branch
SaveTrain ==
    /\ pc = "validate_saved"
    /\ destination_txn_train' = Written(TrainRows(to_validate_row_count))
    /\ pc' = "split_saved"
    /\ UNCHANGED notIngestVars
    /\ UNCHANGED <<err, validate_fraction, split_hash, source_txn_csv,
                   source_labels_csv, txns, to_validate_row_count,
                   destination_txn_validate, destination_labels, previous_run>>

SaveTrainFails ==
    /\ pc = "validate_saved"
    /\ Fail(Error("IOException", {"destination_txn_train"}))
    /\ UNCHANGED <<ingestVars, notIngestVars>>

\* split_txns_and_save: the else branch, only the train dataset is saved
SaveTrainOnly ==
    /\ pc = "loaded"
    /\ ~SplitRequested(validate_fraction)
    /\ destination_txn_train' = Written(AllRows)
    /\ pc' = "split_saved"
    /\ UNCHANGED notIngestVars
    /\ UNCHANGED <<err, validate_fraction, split_hash, source_txn_csv,
                   source_labels_csv, txns, to_validate_row_count,
                   destination_txn_validate, destination_labels, previous_run>>

SaveTrainOnlyFails ==
    /\ pc = "loaded"
    /\ ~SplitRequested(validate_fraction)
    /\ Fail(Error("IOException", {"destination_txn_train"}))
    /\ UNCHANGED <<ingestVars, notIngestVars>>

\* ingest_labels: CREATE TABLE labels from the CSV, then COPY it to parquet
IngestLabels ==
    /\ pc = "split_saved"
    /\ destination_labels' = Written(Range(source_labels_csv))
    /\ pc' = "done"
    /\ UNCHANGED notIngestVars
    /\ UNCHANGED <<err, validate_fraction, split_hash, source_txn_csv,
                   source_labels_csv, txns, to_validate_row_count,
                   destination_txn_validate, destination_txn_train, previous_run>>

\* ingest_labels raises: the labels CSV cannot be read or the COPY fails
IngestLabelsFails ==
    /\ pc = "split_saved"
    /\ \E f \in {"source_labels_csv", "destination_labels"} :
           Fail(Error("IOException", {f}))
    /\ UNCHANGED <<ingestVars, notIngestVars>>

\* The script is run again with the same arguments on the same population,
\* the lines of the CSV in another order (two neighbouring lines swapped, or
\* the same order); the destinations are fresh and the partitions of the run
\* that has just completed are remembered for comparison.
SwapLines(csv, i) ==
    [j \in DOMAIN csv |-> IF j = i THEN csv[i + 1] ELSE IF j = i + 1 THEN csv[i] ELSE csv[j]]

RunAgain ==
    /\ pc = "done"
    /\ \E i \in 0..(Len(source_txn_csv) - 1) :
           source_txn_csv' = IF i = 0 THEN source_txn_csv ELSE SwapLines(source_txn_csv, i)
    /\ previous_run' = [present |-> TRUE,
                        validate |-> FileSummary(destination_txn_validate),
                        train |-> FileSummary(destination_txn_train)]
    /\ pc' = "start"
    /\ txns' = <<>>
    /\ to_validate_row_count' = 0
    /\ destination_txn_validate' = NotWritten
    /\ destination_txn_train' = NotWritten
    /\ destination_labels' = NotWritten
    /\ UNCHANGED notIngestVars
    /\ UNCHANGED <<err, validate_fraction, split_hash, source_labels_csv>>

NextIngest ==
    \/ LoadSourceTxns
    \/ AssertFractionFails
    \/ SaveValidate
    \/ SaveValidateFails
    \/ SaveTrain
    \/ SaveTrainFails
    \/ SaveTrainOnly
    \/ SaveTrainOnlyFails
    \/ IngestLabels
    \/ IngestLabelsFails
    \/ RunAgain

SpecIngest == InitIngest /\ [][NextIngest]_vars

-----------------------------------------------------------------------------
(* generate_categorical_encoding_dict.py: frequency_encode_feature *)

IFNULL(v, d) == IF v = NULL THEN d ELSE v

\* GROUP BY feature_name: the column of the table binds before the alias of
\* the SELECT list, so the groups are the raw values of the column (NULL is
\* a group of its own) and each group's row counts its rows
GroupValues(tbl, fn) == {r[fn] : r \in DOMAIN tbl}
GroupCount(tbl, fn, v) == SumOver(tbl, {r \in DOMAIN tbl : r[fn] = v})

\* SELECT IFNULL(fn, 'NULL') AS fn, COUNT(*) AS row_count ... .df()
\*     .sort_values('row_count', ascending=False):
\* one row per group, in any order that is descending in row_count (neither
\* the order of the groups nor that of equal counts is specified)
SortedCatCounts(tbl, fn) ==
    {[i \in DOMAIN g |-> [name |-> IFNULL(g[i], "NULL"),
                          row_count |-> GroupCount(tbl, fn, g[i])]] :
        g \in {h \in Perms(GroupValues(tbl, fn)) :
                 \A i, j \in DOMAIN h :
                    i < j => GroupCount(tbl, fn, h[i]) >= GroupCount(tbl, fn, h[j])}}

\* np.cumsum(cat_counts_df.row_count.values)[i]
CumSum(df, i) == SumOver([j \in 1..i |-> df[j].row_count], 1..i)

\* feature_cumul_counts_arr / np.max(feature_cumul_counts_arr), then the dict
\* comprehension over zip(names, values): a later pair replaces an earlier
\* one of the same name
EncodingOf(df) ==
    LET mx == SetMax({CumSum(df, i) : i \in DOMAIN df})
    IN  [n \in {df[i].name : i \in DOMAIN df} |->
            LET last == SetMax({i \in DOMAIN df : df[i].name = n})
            IN  FracDiv(CumSum(df, last), mx)]

\* the dictionaries frequency_encode_feature can return for a non-empty table
FrequencyEncodeFeature(tbl, fn) == {EncodingOf(df) : df \in SortedCatCounts(tbl, fn)}

-----------------------------------------------------------------------------
(* the encoding dictionary as a JSON file: json.dump and json.load *)

\* decimals of the text json.dump writes for a float
JsonDigits == 4
JsonScale == 10 ^ JsonDigits

\* the floats of the model: the quotients of two row counts
MaxTotal == MaxCount * Cardinality(DataRows)
Floats == {FracDiv(n, d) : n \in 0..MaxTotal, d \in 1..MaxTotal} \ {Frac(0, 1)}

\* a text of one decimal only, as a format of fixed precision writes
FloatReprShort(f) ==
    ((2 * f.num * 10 + f.den) \div (2 * f.den)) * (JsonScale \div 10)

\* float.__repr__, which json.dump writes a float with: the decimal text
\* nearest to the float (the text is the number of units of 10^-JsonDigits)
FloatRepr(f) == (2 * f.num * JsonScale + f.den) \div (2 * f.den)

Abs(x) == IF x < 0 THEN 0 - x ELSE x

\* float(text), which json.load reads a number with: the float nearest to
\* the decimal (the floats k/MaxTotal leave none farther than 1/(2*MaxTotal)
\* from a float)
FloatParse(t) ==
    LET near == {g \in Floats :
                    Abs(g.num * JsonScale - t * g.den) * 2 * MaxTotal <= g.den * JsonScale}
    IN  CHOOSE g \in near :
            \A h \in near :
                Abs(g.num * JsonScale - t * g.den) * h.den
                    <= Abs(h.num * JsonScale - t * h.den) * g.den

\* the key json.dump writes for a dict key: a str as it is, None as null
JsonKey(k) == IF k = NULL THEN "null" ELSE k

\* json.dump(enc_dict, fh, indent=4): an object with a member per field, whose
\* value is an object with a member per category
JsonDump(d) ==
    {[key |-> JsonKey(fn),
      value |-> {[key |-> JsonKey(c), value |-> FloatRepr(d[fn][c])] :
                    c \in DOMAIN d[fn]}] : fn \in DOMAIN d}

\* json.load of an object of numbers (members of a dumped dict have distinct keys)
JsonLoadNumbers(members) ==
    [k \in {m.key : m \in members} |->
        FloatParse((CHOOSE m \in members : m.key = k).value)]

\* cat_enc_dict = json.load(fh)
JsonLoad(doc) ==
    [k \in {m.key : m \in doc} |->
        JsonLoadNumbers((CHOOSE m \in doc : m.key = k).value)]

-----------------------------------------------------------------------------
(* generate_categorical_encoding_dict.py: main *)

InitEncode ==
    /\ pc = "start"
    /\ err = NoError
    /\ source_data_table \in DataTables
    /\ data_table = EmptyBag
    /\ categorical_feature_list \in FeatureLists
    /\ i_fn = 0
    /\ enc_dict = <<>>
    /\ destination_categorical_encoding_dict = NoJsonFile
    /\ IngestIdle
    /\ DatasetIdle
    /\ ModelIdle

\* CREATE TABLE data_table AS SELECT * FROM source_data_table
CreateDataTable ==
    /\ pc = "start"
    /\ data_table' = source_data_table
    /\ i_fn' = 1
    /\ pc' = "encoding"
    /\ UNCHANGED <<err, source_data_table, categorical_feature_list, enc_dict,
                   destination_categorical_encoding_dict, notEncodeVars>>

\* one turn of the loop: enc_dict[fn] = frequency_encode_feature(con, fn)
EncodeFeature ==
    /\ pc = "encoding"
    /\ i_fn <= Len(categorical_feature_list)
    /\ data_table # EmptyBag
    /\ \E d \in FrequencyEncodeFeature(data_table, categorical_feature_list[i_fn]) :
           enc_dict' = (categorical_feature_list[i_fn] :> d) @@ enc_dict
    /\ i_fn' = i_fn + 1
    /\ UNCHANGED <<pc, err, source_data_table, data_table, categorical_feature_list,
                   destination_categorical_encoding_dict, notEncodeVars>>

\* np.max of an empty array raises: the table has no rows
EncodeFeatureFails ==
    /\ pc = "encoding"
    /\ i_fn <= Len(categorical_feature_list)
    /\ data_table = EmptyBag
    /\ Fail(Error("ValueError: zero-size array to reduction operation maximum", {}))
    /\ UNCHANGED <<encodeVars, notEncodeVars>>

\* json.dump(enc_dict, fh, indent=4)
SaveEncoding ==
    /\ pc = "encoding"
    /\ i_fn > Len(categorical_feature_list)
    /\ destination_categorical_encoding_dict' = [written |-> TRUE, doc |-> JsonDump(enc_dict)]
    /\ pc' = "done"
    /\ UNCHANGED <<err, source_data_table, data_table, categorical_feature_list,
                   i_fn, enc_dict, notEncodeVars>>

NextEncode ==
    \/ CreateDataTable
    \/ EncodeFeature
    \/ EncodeFeatureFails
    \/ SaveEncoding

SpecEncode == InitEncode /\ [][NextEncode]_vars

-----------------------------------------------------------------------------
(* generate_model_dataset.py: inputs *)

\* values of posEntryMode in the tables a dataset is assembled from
DsCatValues == {"a", "NULL", NULL}

\* a row of the transactions parquet file: the id and the string-typed column
\* (the timestamp and the numeric columns are copied or derived per row and
\* carry no value here)
DsTxnRows == [eventId : EventIds, posEntryMode : DsCatValues]

\* a row of the labels parquet file; reportedTime may be null, and an id may
\* have been reported more than once
DsLabelRows == [eventId : EventIds, reportedTime : {"2017-03-01", "2017-03-02", NULL}]

\* the enc_dict values main of generate_categorical_encoding_dict.py can
\* write for table tbl and feature list fl
EncDicts(tbl, fl) ==
    {d \in [Range(fl) -> UNION {FrequencyEncodeFeature(tbl, fn) : fn \in Range(fl)}] :
        \A fn \in Range(fl) : d[fn] \in FrequencyEncodeFeature(tbl, fn)}

\* the training tables the dictionary file was fit on
TrainTables ==
    BagsOver([posEntryMode : DsCatValues, mcc : MccValues], 1) \ {EmptyBag}

\* contents of the file at args.source_categorical_encoding_dict
DictDocs ==
    {JsonDump(d) : d \in UNION {EncDicts(tbl, fl) : tbl \in TrainTables, fl \in FeatureLists}}

\* the columns of prelim_dataset_df, in the order of the two SELECT lists
PrelimColumns ==
    <<"eventId", "txn_month", "txn_day_of_month", "txn_day_of_week", "txn_hour",
      "posEntryMode", "transactionAmount", "availableCash", "is_fraud_flag">>

\* prelim_dataset_df.dtypes[col_name] == type(str): the object-typed columns,
\* which are those of type VARCHAR
StringTyped(col) == col \in {"eventId", "posEntryMode"}

row_id_name == "eventId"

-----------------------------------------------------------------------------
(* generate_model_dataset.py: main *)

\* the image of bag b under the function f on its rows, counts added up
BagMap(b, f) ==
    [o \in {f[r] : r \in DOMAIN b} |-> SumOver(b, {r \in DOMAIN b : f[r] = o})]

\* FROM txns AS T LEFT JOIN labels AS L ON L.eventId = T.eventId: a row per
\* matching label, or one row with a null reportedTime when none matches
\* (labels holds no two equal rows, so a joined row comes from one pair)
MatchingLabels(t, lbl) ==
    {l \in lbl : l.eventId # NULL /\ t.eventId # NULL /\ l.eventId = t.eventId}
LeftJoin(tx, lbl) ==
    LET times(t) == IF MatchingLabels(t, lbl) = {} THEN {NULL}
                    ELSE {l.reportedTime : l \in MatchingLabels(t, lbl)}
        joined == UNION {{[eventId |-> t.eventId, posEntryMode |-> t.posEntryMode,
                           reportedTime |-> rt] : rt \in times(t)} : t \in DOMAIN tx}
    IN  [o \in joined |-> tx[[eventId |-> o.eventId, posEntryMode |-> o.posEntryMode]]]

\* CASE WHEN reportedTime IS NULL THEN {'0' if labels_provided else '-1'} ELSE 1 END
is_fraud_flag(reportedTime, labels_provided) ==
    IF reportedTime = NULL THEN (IF labels_provided THEN 0 ELSE 0 - 1) ELSE 1

\* SELECT * EXCLUDE(transactionTime, reportedTime), CASE ... AS is_fraud_flag
CoreView(tbl, labels_provided) ==
    BagMap(tbl, [r \in DOMAIN tbl |->
                     [eventId |-> r.eventId, posEntryMode |-> r.posEntryMode,
                      is_fraud_flag |-> is_fraud_flag(r.reportedTime, labels_provided)]])

\* the values of column col of the frame that dict d has no key for
\* (d.get(value) is None)
Unmapped(df, col, d) == {r[col] : r \in DOMAIN df} \ DOMAIN d

\* dataset_df.assign(**{cat_feat: mapped_field_vals})
AssignMapped(df, col, d) ==
    BagMap(df, [r \in DOMAIN df |-> [r EXCEPT ![col] = d[r[col]]]])

InitDataset ==
    /\ pc = "start"
    /\ err = NoError
    /\ source_txns_table \in BagsUpTo(DsTxnRows, MaxTxns)
    /\ source_labels_table \in {NotGiven({})} \cup {Given(l) : l \in SUBSET DsLabelRows}
    /\ source_categorical_encoding_dict \in {NotGiven({})} \cup {Given(d) : d \in DictDocs}
    /\ txns = <<>>
    /\ labels = {}
    /\ cat_enc_dict = NotGiven(<<>>)
    /\ full_table = EmptyBag
    /\ prelim_dataset_df = EmptyBag
    /\ categorical_feature_list = <<>>
    /\ dataset_df = EmptyBag
    /\ destination_model_dataset = NoFile
    /\ IngestIdle
    /\ EncodeIdle
    /\ ModelIdle

\* CREATE TABLE txns, CREATE TABLE labels (empty when no labels table is
\* given), json.load of the encoding dictionary (None when none is given)
LoadTables ==
    /\ pc = "start"
    /\ txns' = source_txns_table
    /\ labels' = IF source_labels_table.provided THEN source_labels_table.content ELSE {}
    /\ cat_enc_dict' = IF source_categorical_encoding_dict.provided
                       THEN Given(JsonLoad(source_categorical_encoding_dict.content))
                       ELSE NotGiven(<<>>)
    /\ pc' = "loaded"
    /\ UNCHANGED <<err, source_txns_table, source_labels_table,
                   source_categorical_encoding_dict, full_table, prelim_dataset_df,
                   categorical_feature_list, dataset_df, destination_model_dataset,
                   notDatasetVars>>

\* CREATE TABLE full_table AS (SELECT ... FROM txns LEFT JOIN labels ...)
PrepareKeyFields ==
    /\ pc = "loaded"
    /\ full_table' = LeftJoin(txns, labels)
    /\ pc' = "joined"
    /\ UNCHANGED <<err, source_txns_table, source_labels_table,
                   source_categorical_encoding_dict, txns, labels, cat_enc_dict,
                   prelim_dataset_df, categorical_feature_list, dataset_df,
                   destination_model_dataset, notDatasetVars>>

\* prelim_dataset_df = con.execute(WITH core_vw AS (...) SELECT * FROM core_vw).df()
LoadDataframe ==
    /\ pc = "joined"
    /\ prelim_dataset_df' = CoreView(full_table, source_labels_table.provided)
    /\ pc' = "prelim"
    /\ UNCHANGED <<err, source_txns_table, source_labels_table,
                   source_categorical_encoding_dict, txns, labels, cat_enc_dict,
                   full_table, categorical_feature_list, dataset_df,
                   destination_model_dataset, notDatasetVars>>

\* the string-typed columns other than the id, in column order
StringColumns ==
    SelectSeq(PrelimColumns, LAMBDA c : StringTyped(c) /\ c # row_id_name)

\* a test that asks only whether a dictionary was given
HasEncodingAnyDict(col) == cat_enc_dict.provided

\* cat_enc_dict is not None and col_name in cat_enc_dict
HasEncoding(col) == cat_enc_dict.provided /\ col \in DOMAIN cat_enc_dict.content

\* the loop over the columns: every string-typed column has an encoding
HandleCategoricalFeatures ==
    /\ pc = "prelim"
    /\ \A i \in DOMAIN StringColumns : HasEncoding(StringColumns[i])
    /\ categorical_feature_list' = StringColumns
    /\ pc' = "selected"
    /\ UNCHANGED <<err, datasetRest, txns, notDatasetVars>>

\* the loop raises at the first string-typed column without an encoding
CategoricalEncodingMissing ==
    /\ pc = "prelim"
    /\ \E i \in DOMAIN StringColumns :
           /\ ~HasEncoding(StringColumns[i])
           /\ \A j \in 1..(i - 1) : HasEncoding(StringColumns[j])
           /\ Fail(Error("Categorical encoding for {col_name} is missing",
                         {StringColumns[i]}))
    /\ UNCHANGED <<datasetVars, notDatasetVars>>

RECURSIVE AssignAll(_, _, _)
\* the loop over categorical_feature_list, every value found in its dictionary
AssignAll(df, feats, i) ==
    IF i > Len(feats) THEN df
    ELSE AssignAll(AssignMapped(df, feats[i], cat_enc_dict.content[feats[i]]), feats, i + 1)

\* apply encoding to the categorical features
ApplyEncoding ==
    /\ pc = "selected"
    /\ \/ categorical_feature_list = <<>>
       \/ /\ prelim_dataset_df # EmptyBag
          /\ \A i \in DOMAIN categorical_feature_list :
                Unmapped(prelim_dataset_df, categorical_feature_list[i],
                         cat_enc_dict.content[categorical_feature_list[i]]) = {}
    /\ dataset_df' = AssignAll(prelim_dataset_df, categorical_feature_list, 1)
    /\ pc' = "encoded"
    /\ UNCHANGED <<err, source_txns_table, source_labels_table,
                   source_categorical_encoding_dict, txns, labels, cat_enc_dict,
                   full_table, prelim_dataset_df, categorical_feature_list,
                   destination_model_dataset, notDatasetVars>>

\* np.vectorize(...) raises on a frame without rows (size 0 inputs, otypes not set)
ApplyEncodingEmptyFails ==
    /\ pc = "selected"
    /\ categorical_feature_list # <<>>
    /\ prelim_dataset_df = EmptyBag
    /\ Fail(Error("ValueError: cannot call vectorize on size 0 inputs unless otypes is set", {}))
    /\ UNCHANGED <<datasetVars, notDatasetVars>>

\* a value of the first categorical column with unmapped values is not in its
\* dictionary: get returns None for it. When the first row's value is mapped
\* the None becomes NaN and line 217 raises; when it is not, the mapped array
\* is of objects and np.isfinite raises a TypeError. Which row is first is
\* not specified by the query.
ApplyEncodingFails ==
    /\ pc = "selected"
    /\ prelim_dataset_df # EmptyBag
    /\ \E i \in DOMAIN categorical_feature_list :
          LET col == categorical_feature_list[i]
              d == cat_enc_dict.content[col]
              missing == Unmapped(prelim_dataset_df, col, d)
              vals == {r[col] : r \in DOMAIN prelim_dataset_df}
          IN  /\ missing # {}
              /\ \A j \in 1..(i - 1) :
                    Unmapped(prelim_dataset_df, categorical_feature_list[j],
                             cat_enc_dict.content[categorical_feature_list[j]]) = {}
              /\ \/ /\ vals # missing
                    /\ Fail(Error("Some values have not been found in the dictionary!", {}))
                 \/ Fail(Error("TypeError: ufunc isfinite not supported for the input types", {}))
    /\ UNCHANGED <<datasetVars, notDatasetVars>>

\* dataset_df.to_parquet(args.destination_model_dataset)
SaveDataset ==
    /\ pc = "encoded"
    /\ destination_model_dataset' = [written |-> TRUE, doc |-> dataset_df]
    /\ pc' = "done"
    /\ UNCHANGED <<err, source_txns_table, source_labels_table,
                   source_categorical_encoding_dict, txns, labels, cat_enc_dict,
                   full_table, prelim_dataset_df, categorical_feature_list,
                   dataset_df, notDatasetVars>>

NextDataset ==
    \/ LoadTables
    \/ PrepareKeyFields
    \/ LoadDataframe
    \/ HandleCategoricalFeatures
    \/ CategoricalEncodingMissing
    \/ ApplyEncoding
    \/ ApplyEncodingEmptyFails
    \/ ApplyEncodingFails
    \/ SaveDataset

SpecDataset == InitDataset /\ [][NextDataset]_vars

-----------------------------------------------------------------------------
(* the two scripts in a row: the dictionary file that                      *)
(* generate_categorical_encoding_dict.py wrote is the one given to         *)
(* generate_model_dataset.py                                               *)

\* the transactions tables of the second run (one id suffices here)
HandOverTables ==
    {b \in BagsUpTo(DsTxnRows, MaxTxns) : \A r \in DOMAIN b : r.eventId = "e1"}

\* the file at --destination_categorical_encoding_dict of the run that ended
\* is passed as --source_categorical_encoding_dict of the run that starts
HandOver ==
    /\ pc = "done"
    /\ destination_categorical_encoding_dict.written
    /\ ~source_categorical_encoding_dict.provided
    /\ source_categorical_encoding_dict' = Given(destination_categorical_encoding_dict.doc)
    /\ source_txns_table' \in HandOverTables
    /\ categorical_feature_list' = <<>>
    /\ pc' = "start"
    /\ UNCHANGED <<err, source_labels_table, labels, cat_enc_dict, full_table,
                   prelim_dataset_df, dataset_df, destination_model_dataset, txns,
                   notDatasetVars>>

NextPipeline ==
    \/ ~source_categorical_encoding_dict.provided /\ NextEncode
    \/ HandOver
    \/ source_categorical_encoding_dict.provided /\ NextDataset

\* the first run starts on a table of at most MaxCount rows
InitPipeline ==
    /\ InitEncode
    /\ source_data_table \in BagsUpTo(DataRows, MaxCount)

SpecPipeline == InitPipeline /\ [][NextPipeline]_vars

-----------------------------------------------------------------------------
(* train_model.py and predict.py: inputs *)

\* most rows of a dataset file
MaxDatasetRows == 2

\* the columns of the file generate_model_dataset.py writes: the columns that
\* are not categorical in their order, then the encoded ones as assign()
\* appends them
DatasetColumns(cats) ==
    SelectSeq(PrelimColumns, LAMBDA c : c \notin Range(cats)) \o cats

\* dataset files: the columns and, per row, the value of is_fraud_flag, which
\* is -1 on every row (no labels table was given) or 0 or 1
Datasets ==
    {[columns |-> DatasetColumns(StringColumns), flags |-> f] :
        f \in SeqsUpTo({0, 1}, MaxDatasetRows) \cup SeqsUpTo({0 - 1}, MaxDatasetRows)}

\* --model_config values
ModelConfigs == {"v0.0", "v0.1", "v0.2", "v0.3", "v0.4", "v1"}

\* the configurations the if/elif chain of train_model.main has a branch for
SupportedConfigs == {"v0.0", "v0.1", "v0.2", "v0.3"}

label_name == "is_fraud_flag"

\* full_df.pop(c): the frame without column c
Pop(df, c) == [df EXCEPT !.columns = SelectSeq(df.columns, LAMBDA x : x # c)]

\* CatBoostClassifier.fit accepts a target with two classes at least
CanFit(flags) == Cardinality(Range(flags)) >= 2

\* a fitted classifier keeps the names of the columns it was fit on
Fitted(config, features) ==
    [fitted |-> TRUE, config |-> config, feature_names |-> features]

-----------------------------------------------------------------------------
(* train_model.py: main *)

InitTrain ==
    /\ pc = "start"
    /\ err = NoError
    /\ model_config \in ModelConfigs
    /\ source_dataset \in Datasets
    /\ full_df = NoFrame
    /\ model_feature_list = <<>>
    /\ model = NoModel
    /\ destination_model = NoModelFile
    /\ source_model = NoModel
    /\ destination_predictions = NoPredictions
    /\ IngestIdle
    /\ EncodeIdle
    /\ DatasetIdle

\* pd.read_parquet, full_df.pop('eventId'), model_feature_list, train_X, train_Y
TrainReadDataset ==
    /\ pc = "start"
    /\ full_df' = Pop(source_dataset, "eventId")
    /\ model_feature_list' =
           SelectSeq(Pop(source_dataset, "eventId").columns, LAMBDA col : col # label_name)
    /\ pc' = "read"
    /\ UNCHANGED <<err, model_config, source_dataset, model, destination_model,
                   source_model, destination_predictions, notModelVars>>

\* the branch of the configuration: model.fit on train_X = full_df[model_feature_list]
FitModel ==
    /\ pc = "read"
    /\ model_config \in SupportedConfigs
    /\ CanFit(full_df.flags)
    /\ model' = Fitted(model_config, model_feature_list)
    /\ pc' = "trained"
    /\ UNCHANGED <<err, model_config, source_dataset, full_df, model_feature_list,
                   destination_model, source_model, destination_predictions,
                   notModelVars>>

\* model.fit raises on a target of fewer than two classes
FitModelFails ==
    /\ pc = "read"
    /\ model_config \in SupportedConfigs
    /\ ~CanFit(full_df.flags)
    /\ Fail(Error("CatBoostError: Target contains only one unique value", {}))
    /\ UNCHANGED <<modelVars, notModelVars>>

\* else: raise Exception('Model config not supported')
ModelConfigNotSupported ==
    /\ pc = "read"
    /\ model_config \notin SupportedConfigs
    /\ Fail(Error("Model config not supported", {}))
    /\ UNCHANGED <<modelVars, notModelVars>>

\* model.save_model(args.destination_model, format='json')
SaveModel ==
    /\ pc = "trained"
    /\ destination_model' = [written |-> TRUE, doc |-> model]
    /\ pc' = "done"
    /\ UNCHANGED <<err, model_config, source_dataset, full_df, model_feature_list,
                   model, source_model, destination_predictions, notModelVars>>

NextTrain ==
    \/ TrainReadDataset
    \/ FitModel
    \/ FitModelFails
    \/ ModelConfigNotSupported
    \/ SaveModel

SpecTrain == InitTrain /\ [][NextTrain]_vars

-----------------------------------------------------------------------------
(* predict.py: main *)

\* the model files train_model.py writes for a dataset file of
\* generate_model_dataset.py
Models ==
    {Fitted(c, SelectSeq(Pop(d, "eventId").columns, LAMBDA col : col # label_name)) :
        c \in SupportedConfigs, d \in Datasets}

InitPredict ==
    /\ pc = "start"
    /\ err = NoError
    /\ source_dataset \in Datasets
    /\ source_model \in Models
    /\ model_config = ""
    /\ full_df = NoFrame
    /\ model_feature_list = <<>>
    /\ model = NoModel
    /\ destination_model = NoModelFile
    /\ destination_predictions = NoPredictions
    /\ IngestIdle
    /\ EncodeIdle
    /\ DatasetIdle

\* pd.read_parquet, event_id_col = full_df.pop('eventId'); is_fraud_flag
\* stays in full_df
PredictReadDataset ==
    /\ pc = "start"
    /\ full_df' = Pop(source_dataset, "eventId")
    /\ pc' = "read"
    /\ UNCHANGED <<err, model_config, source_dataset, model_feature_list, model,
                   destination_model, source_model, destination_predictions,
                   notModelVars>>

\* cb.CatBoostClassifier().load_model(args.source_model, format='json')
LoadModel ==
    /\ pc = "read"
    /\ model' = source_model
    /\ pc' = "model_loaded"
    /\ UNCHANGED <<err, model_config, source_dataset, full_df, model_feature_list,
                   destination_model, source_model, destination_predictions,
                   notModelVars>>

\* model.predict_proba(full_df)[:,1]: the classifier is handed every column
\* of full_df and returns a score per row
GenerateScores ==
    /\ pc = "model_loaded"
    /\ pc' = "scored"
    /\ UNCHANGED <<err, modelVars, notModelVars>>

\* the classifier may refuse a frame whose columns are not the ones it was
\* fit on
GenerateScoresFails ==
    /\ pc = "model_loaded"
    /\ full_df.columns # model.feature_names
    /\ Fail(Error("CatBoostError: the columns of the data are not the features of the model", {}))
    /\ UNCHANGED <<modelVars, notModelVars>>

\* save_df (eventId, score).to_parquet(args.destination_predictions)
SavePredictions ==
    /\ pc = "scored"
    /\ destination_predictions' =
           [written |-> TRUE, columns |-> <<"eventId", "score">>,
            rows |-> Len(full_df.flags)]
    /\ pc' = "done"
    /\ UNCHANGED <<err, model_config, source_dataset, full_df, model_feature_list,
                   model, destination_model, source_model, notModelVars>>

NextPredict ==
    \/ PredictReadDataset
    \/ LoadModel
    \/ GenerateScores
    \/ GenerateScoresFails
    \/ SavePredictions

SpecPredict == InitPredict /\ [][NextPredict]_vars

-----------------------------------------------------------------------------
(* Properties of ingest_and_split.py *)

IngestRunEnded == pc \in {"done", "failed"}

C2_SplitMembershipDeterministic ==
    (pc = "done" /\ previous_run.present) =>
        /\ FileSummary(destination_txn_validate) = previous_run.validate
        /\ FileSummary(destination_txn_train) = previous_run.train

\* C3: when a run has ended, either every output it was asked for has been
\* written or none has.
C3_OutputsAllOrNothing ==
    LET f == validate_fraction
        validateRequested == f.num * 2 > 0 - f.den
        all == /\ destination_txn_train.written
               /\ destination_labels.written
               /\ validateRequested => destination_txn_validate.written
        none == /\ ~destination_txn_train.written
                /\ ~destination_labels.written
                /\ ~destination_txn_validate.written
    IN  IngestRunEnded => (all \/ none)

C5_SentinelNoSplit ==
    LET f == validate_fraction
    IN  (f.num * 2 <= 0 - f.den) =>
            /\ ~destination_txn_validate.written
            /\ err.msg # "AssertionError"
            /\ pc \in {"split_saved", "done"} => destination_txn_train.written
            /\ destination_txn_train.written =>
                   destination_txn_train.rows = 1..Len(source_txn_csv)

C5_Witness ==
    /\ pc = "done"
    /\ validate_fraction = Frac(-1, 2)
    /\ destination_txn_train.rows = {1, 2, 3}
    /\ ~destination_txn_validate.written

-----------------------------------------------------------------------------
(* Properties of generate_categorical_encoding_dict.py *)

\* the categories of a column: its distinct values, a null value counted as
\* the category "NULL" together with the rows whose value is the text "NULL"
Categories(tbl, fn) == {IFNULL(r[fn], "NULL") : r \in DOMAIN tbl}
CategoryCount(tbl, fn, c) ==
    SumOver(tbl, {r \in DOMAIN tbl : IFNULL(r[fn], "NULL") = c})

\* the listings of the set S of categories by descending count
DescendingListings(tbl, fn, S) ==
    {h \in Perms(S) :
        \A i, j \in DOMAIN h :
            i < j => CategoryCount(tbl, fn, h[i]) >= CategoryCount(tbl, fn, h[j])}

\* C6: the mapping returned for a non-empty column has exactly one entry per
\* category, and the category at position i of the descending-count order
\* maps to (c1 + ... + ci) / total.
C6_CumulativeFrequencyEncoding ==
    \A fn \in DOMAIN enc_dict :
        LET d == enc_dict[fn]
            cats == Categories(data_table, fn)
            total == SumOver(data_table, DOMAIN data_table)
        IN  /\ DOMAIN d = cats
            /\ \E h \in DescendingListings(data_table, fn, cats) :
                   \A i \in DOMAIN h :
                      LET cum == SumOver([j \in 1..i |-> CategoryCount(data_table, fn, h[j])],
                                         1..i)
                      IN  d[h[i]].num * total = cum * d[h[i]].den

\* C7: listed by descending count, the encoded values of a returned mapping
\* never decrease, each lies in (0, 1], and the last one is exactly 1.
C7_EncodingMonotone ==
    \A fn \in DOMAIN enc_dict :
        LET d == enc_dict[fn]
        IN  /\ \A c \in DOMAIN d : 0 < d[c].num /\ d[c].num <= d[c].den
            /\ \E h \in DescendingListings(data_table, fn, DOMAIN d) :
                   /\ \A i, j \in DOMAIN h : i < j => FLe(d[h[i]], d[h[j]])
                   /\ d[h[Len(h)]].num = d[h[Len(h)]].den

-----------------------------------------------------------------------------
(* Properties of generate_model_dataset.py *)

\* C8: when a row's value of a categorical field is not a key of the field's
\* dictionary, the run raises an error that names the field and the missing
\* value, and the destination dataset is not written.
C8_UnseenCategoryErrorNamesFieldAndValue ==
    \A i \in DOMAIN categorical_feature_list :
        LET col == categorical_feature_list[i]
            missing == {r[col] : r \in DOMAIN prelim_dataset_df}
                           \ DOMAIN cat_enc_dict.content[col]
        IN  missing # {} =>
                /\ pc \in {"selected", "failed"}
                /\ ~destination_model_dataset.written
                /\ pc = "failed" =>
                       /\ col \in err.mentions
                       /\ \E v \in missing : v \in err.mentions

\* C9: with a dictionary that has the key "NULL" for posEntryMode (and a key
\* for every other value of the population), a population with a null
\* posEntryMode is assembled without error and the row of the null gets
\* dictionary["posEntryMode"]["NULL"].
C9_NullEncodedAsNULLCategory ==
    LET src == source_categorical_encoding_dict
        dict == JsonLoad(src.content)
        d == dict["posEntryMode"]
        rows == DOMAIN source_txns_table
    IN  (/\ src.provided
         /\ \E r \in rows : r.posEntryMode = NULL
         /\ "posEntryMode" \in DOMAIN dict
         /\ "NULL" \in DOMAIN d
         /\ \A r \in rows : r.posEntryMode = NULL \/ r.posEntryMode \in DOMAIN d)
        => /\ pc # "failed"
           /\ pc = "done" =>
                  \A r \in rows :
                     r.posEntryMode = NULL =>
                        \E o \in DOMAIN destination_model_dataset.doc :
                           o.eventId = r.eventId /\ o.posEntryMode = d["NULL"]

\* C10: in the dataset written, is_fraud_flag is -1 on every row when no
\* labels table was given; otherwise it is 1 on the rows whose eventId has a
\* record in the labels table (whatever its reportedTime) and 0 on the others.
C10_LabelSemantics ==
    pc = "done" =>
        \A o \in DOMAIN destination_model_dataset.doc :
            o.is_fraud_flag =
                IF ~source_labels_table.provided THEN 0 - 1
                ELSE IF \E l \in source_labels_table.content : l.eventId = o.eventId
                     THEN 1 ELSE 0

\* C11: the dataset written has exactly one row per transaction of the input
\* table, carrying the transaction's eventId, whatever the labels table holds
\* (also several label records for one eventId).
C11_OneRowPerTransaction ==
    pc = "done" =>
        \A e \in EventIds \cup {NULL} :
            SumOver(destination_model_dataset.doc,
                    {o \in DOMAIN destination_model_dataset.doc : o.eventId = e})
              = SumOver(source_txns_table,
                        {r \in DOMAIN source_txns_table : r.eventId = e})

\* the string-typed columns other than the id that the dictionary file given
\* to the run has no entry for (all of them when no file is given)
ColumnsWithoutEncoding ==
    {c \in Range(StringColumns) :
        ~(/\ source_categorical_encoding_dict.provided
          /\ \E m \in source_categorical_encoding_dict.content : m.key = c)}

\* C12: when a string-typed column other than eventId has no entry in the
\* encoding dictionary (or no dictionary is given), the run never gets to
\* encode a column or to write the dataset, and the error that ends it is the
\* one of the column loop and names such a column.
C12_MissingEncodingNamesColumn ==
    ColumnsWithoutEncoding # {} =>
        /\ pc \in {"start", "loaded", "joined", "prelim", "failed"}
        /\ categorical_feature_list = <<>>
        /\ dataset_df = EmptyBag
        /\ ~destination_model_dataset.written
        /\ pc = "failed" =>
               /\ err.msg = "Categorical encoding for {col_name} is missing"
               /\ err.mentions # {}
               /\ err.mentions \subseteq ColumnsWithoutEncoding

C12_Witness ==
    /\ pc = "failed"
    /\ source_categorical_encoding_dict.provided
    /\ {m.key : m \in source_categorical_encoding_dict.content} = {"mcc"}
    /\ source_txns_table # EmptyBag
    /\ err.mentions = {"posEntryMode"}
    /\ ~destination_model_dataset.written

\* C13: a transactions CSV in which two lines carry the same eventId is never
\* ranked into a partition: no training or validation file is written from
\* it and the run does not complete.
C13_IdentifierInvariant ==
    LET N == Len(source_txn_csv)
        shared == \E i, j \in 1..N :
                      i # j /\ source_txn_csv[i].eventId = source_txn_csv[j].eventId
    IN  shared =>
            /\ ~destination_txn_validate.written
            /\ ~destination_txn_train.written
            /\ pc \in {"start", "loaded", "failed"}

\* C14: the dictionary generate_model_dataset.py reads back from the file
\* generate_categorical_encoding_dict.py wrote is the dictionary that was
\* written: the same fields, for each field the same category keys, and for
\* each key the same value.
C14_DictionaryRoundTrip ==
    cat_enc_dict.provided =>
        /\ DOMAIN cat_enc_dict.content = DOMAIN enc_dict
        /\ \A fn \in DOMAIN enc_dict :
               /\ DOMAIN cat_enc_dict.content[fn] = DOMAIN enc_dict[fn]
               /\ \A c \in DOMAIN enc_dict[fn] :
                      cat_enc_dict.content[fn][c] = enc_dict[fn][c]

C14_Witness ==
    /\ cat_enc_dict.provided
    /\ DOMAIN cat_enc_dict.content = {"mcc", "posEntryMode"}
    /\ DOMAIN cat_enc_dict.content["posEntryMode"] = {"NULL", "a", "b"}
    /\ enc_dict["posEntryMode"]["NULL"] = Frac(1, 3)
    /\ cat_enc_dict.content["posEntryMode"]["NULL"] = Frac(1, 3)

-----------------------------------------------------------------------------
(* Properties of train_model.py and predict.py *)

\* C15: for every model_config other than v0.0, v0.1 and v0.2 the run of
\* train_model.py ends with an error and never writes the model file.
C15_OnlyDocumentedConfigsSupported ==
    model_config \notin {"v0.0", "v0.1", "v0.2"} =>
        /\ pc # "done"
        /\ ~destination_model.written

\* predict_proba has been called: it returned or it raised
HandedToClassifier ==
    \/ pc \in {"scored", "done"}
    \/ pc = "failed" /\ model.fitted

\* C16: the columns predict.py hands to the classifier are the columns
\* train_model.py fit it on, in the same order: the columns of the dataset
\* without eventId and without is_fraud_flag.
C16_TrainServeFeatureParity ==
    HandedToClassifier =>
        /\ full_df.columns = model.feature_names
        /\ full_df.columns =
               SelectSeq(source_dataset.columns,
                         LAMBDA col : col \notin {"eventId", "is_fraud_flag"})

====
